---------------------------- MODULE Spec2Model ----------------------------
(***************************************************************************)
(* Voxelization and greedy meshing of obj2mc (src-tauri/src/lib.rs).       *)
(*                                                                         *)
(* World coordinates are f32 in the source.  Every value the model feeds   *)
(* in is a small multiple of 1/Den, and scale is 1 or 2, so every product, *)
(* sum and comparison the source computes is exact in f32; the model       *)
(* carries the same values as integers counted in units of 1/Den (and of   *)
(* 1/Den^2, 1/Den^3 for the products), which keeps every comparison.       *)
(* Cell coordinates stay far from the i32 limits: x + width and the like   *)
(* never overflow on the inputs of the model.                              *)
(***************************************************************************)
EXTENDS Integers, Sequences, FiniteSets, Bags, TLC

\* ---------------------------------------------------------------- bounds
\* vertex lattice of the single-triangle inputs: half-unit steps
MaxVX == 2
MaxVY == 1
\* number of meshes in a multi-mesh input
MaxModels == 2
\* voxel sets up to this size are iterated in every order
MaxPerm == 3
\* greedy-mesher inputs: cells of a NX x NY x NZ grid, at most MaxVoxels of them
NX == 2
NY == 2
NZ == 2
MaxVoxels == 3

\* world units are counted in 1/Den; Den/(2*scale) is whole for scale 1 and 2
Den == 2 * 2
Scales == {1, 2}

\* ------------------------------------------------------------ f32 / Vec3
Abs(a) == IF a < 0 THEN -a ELSE a
Min2(a, b) == IF a < b THEN a ELSE b
Max2(a, b) == IF a > b THEN a ELSE b
Min3(a, b, c) == Min2(Min2(a, b), c)
Max3(a, b, c) == Max2(Max2(a, b), c)

VSub(a, b) == <<a[1] - b[1], a[2] - b[2], a[3] - b[3]>>
VDot(a, b) == a[1] * b[1] + a[2] * b[2] + a[3] * b[3]
VCross(a, b) == <<a[2] * b[3] - a[3] * b[2],
                  a[3] * b[1] - a[1] * b[3],
                  a[1] * b[2] - a[2] * b[1]>>
VMin3(a, b, c) == <<Min3(a[1], b[1], c[1]), Min3(a[2], b[2], c[2]), Min3(a[3], b[3], c[3])>>
VMax3(a, b, c) == <<Max3(a[1], b[1], c[1]), Max3(a[2], b[2], c[2]), Max3(a[3], b[3], c[3])>>

\* floor and ceil of a/Den, then as_ivec3 (in range: no saturation)
Floor(a) == a \div Den
Ceil(a) == -((-a) \div Den)

\* ------------------------------------------------ triangle_aabb_intersect
\* the nine edge x box-axis cross products, in the source's order
SatAxes(f0, f1, f2) ==
    << <<0, -f0[3], f0[2]>>, <<0, -f1[3], f1[2]>>, <<0, -f2[3], f2[2]>>,
       <<f0[3], 0, -f0[1]>>, <<f1[3], 0, -f1[1]>>, <<f2[3], 0, -f2[1]>>,
       <<-f0[2], f0[1], 0>>, <<-f1[2], f1[1], 0>>, <<-f2[2], f2[1], 0>> >>

\* one box-face axis k: separated iff min > hs or max < -hs
BoxAxisSeparates(v0, v1, v2, k, hs) ==
    \/ Min3(v0[k], v1[k], v2[k]) > hs
    \/ Max3(v0[k], v1[k], v2[k]) < -hs

\* the triangle's own normal
NormalSeparates(v0, f0, f1, hs) ==
    LET normal == VCross(f0, f1)
        d == VDot(normal, v0)
        r == hs * (Abs(normal[1]) + Abs(normal[2]) + Abs(normal[3]))
    IN  Abs(d) > r

\* one of the nine cross axes
CrossAxisSeparates(v0, v1, v2, ax, hs) ==
    LET p0 == VDot(v0, ax)
        p1 == VDot(v1, ax)
        p2 == VDot(v2, ax)
        r == hs * (Abs(ax[1]) + Abs(ax[2]) + Abs(ax[3]))
    IN  Min3(p0, p1, p2) > r \/ Max3(p0, p1, p2) < -r

triangle_aabb_intersect(w0, w1, w2, center, hs) ==
    LET v0 == VSub(w0, center)
        v1 == VSub(w1, center)
        v2 == VSub(w2, center)
        f0 == VSub(v1, v0)
        f1 == VSub(v2, v1)
        f2 == VSub(v0, v2)
        axes == SatAxes(f0, f1, f2)
    IN  /\ \A k \in 1..3 : ~BoxAxisSeparates(v0, v1, v2, k, hs)
        /\ ~NormalSeparates(v0, f0, f1, hs)
        /\ \A i \in 1..9 : ~CrossAxisSeparates(v0, v1, v2, axes[i], hs)

\* ----------------------------------------------- voxelize_model, per triangle
\* voxel_size = 1/scale and half_size = voxel_size/2, in units of 1/Den
VoxelSize(scale) == Den \div scale
HalfSize(scale) == Den \div (2 * scale)

\* (c + 0.5) * voxel_size
CellCenter(cell, scale) ==
    LET c(k) == ((2 * cell[k] + 1) * VoxelSize(scale)) \div 2
    IN  <<c(1), c(2), c(3)>>

\* mutant of IMin: the scan starts one cell below floor(min)
IMin_OneLower(tri, scale) ==
    LET t == VMin3(tri[1], tri[2], tri[3])
    IN  <<Floor(t[1] * scale) - 1, Floor(t[2] * scale) - 1, Floor(t[3] * scale) - 1>>

\* i_min and i_max of one triangle
IMin(tri, scale) ==
    LET t == VMin3(tri[1], tri[2], tri[3])
    IN  <<Floor(t[1] * scale), Floor(t[2] * scale), Floor(t[3] * scale)>>
IMax(tri, scale) ==
    LET t == VMax3(tri[1], tri[2], tri[3])
    IN  <<Ceil(t[1] * scale), Ceil(t[2] * scale), Ceil(t[3] * scale)>>

\* the cells the three nested inclusive loops visit
ScannedCells(tri, scale) ==
    LET lo == IMin(tri, scale)
        hi == IMax(tri, scale)
    IN  (lo[1]..hi[1]) \X (lo[2]..hi[2]) \X (lo[3]..hi[3])

\* local_voxels of one index chunk
TriangleVoxels(tri, scale) ==
    {c \in ScannedCells(tri, scale) :
        triangle_aabb_intersect(tri[1], tri[2], tri[3], CellCenter(c, scale), HalfSize(scale))}

\* map over par_chunks(3), flatten, collect into the hash set
MeshVoxels(tris, scale) ==
    UNION {TriangleVoxels(tris[i], scale) : i \in 1..Len(tris)}

\* ------------------------------------------------------------ input meshes
\* A mesh is [name, tris]: tris is the index buffer taken three at a time,
\* each index already replaced by its vertex (vertex_vecs[chunk[i]]).
Pt(k, s, a, b) == IF k = 1 THEN <<s, a, b>> ELSE IF k = 2 THEN <<a, s, b>> ELSE <<a, b, s>>
Others(k) == IF k = 1 THEN <<2, 3>> ELSE IF k = 2 THEN <<1, 3>> ELSE <<1, 2>>

\* the two triangles of the face of the box lo..hi that lies at coordinate s of axis k
FaceTris(k, s, lo, hi) ==
    LET a == Others(k)[1]
        b == Others(k)[2]
        c1 == Pt(k, s, lo[a], lo[b])
        c2 == Pt(k, s, hi[a], lo[b])
        c3 == Pt(k, s, hi[a], hi[b])
        c4 == Pt(k, s, lo[a], hi[b])
    IN  << <<c1, c2, c3>>, <<c1, c3, c4>> >>

\* the 12-triangle axis-aligned box with corners lo and hi
BoxTris(lo, hi) ==
    FaceTris(1, lo[1], lo, hi) \o FaceTris(1, hi[1], lo, hi) \o
    FaceTris(2, lo[2], lo, hi) \o FaceTris(2, hi[2], lo, hi) \o
    FaceTris(3, lo[3], lo, hi) \o FaceTris(3, hi[3], lo, hi)

UnitCubeTris == BoxTris(<<0, 0, 0>>, <<Den, Den, Den>>)
ElongatedBoxTris == BoxTris(<<0, 0, 0>>, <<2 * Den, Den, Den>>)

\* ------------------------------------------------------ run_greedy_meshing
Range(seq) == {seq[i] : i \in 1..Len(seq)}

\* a.y.cmp(&b.y).then(a.z.cmp(&b.z)).then(a.x.cmp(&b.x)) = Less
SortLess(a, b) ==
    \/ a[2] < b[2]
    \/ a[2] = b[2] /\ a[3] < b[3]
    \/ a[2] = b[2] /\ a[3] = b[3] /\ a[1] < b[1]

\* sort_by is a stable sort: iter[i] lands behind every element that compares
\* Less than it and behind every earlier element that compares Equal
SortRank(iter, i) ==
    1 + Cardinality({j \in 1..Len(iter) : SortLess(iter[j], iter[i])})
      + Cardinality({j \in 1..(i - 1) :
                        ~SortLess(iter[j], iter[i]) /\ ~SortLess(iter[i], iter[j])})

\* mutant of SortedVoxels: the sort left out
SortedVoxels_Unsorted(iter) == iter

\* voxels.iter().cloned().collect() followed by sort_by: iter is the order
\* in which the hash set hands out its cells
SortedVoxels(iter) ==
    [r \in 1..Len(iter) |-> iter[CHOOSE i \in 1..Len(iter) : SortRank(iter, i) = r]]

\* mutants of Unclaimed: the claimed test forgotten, the membership test forgotten
Unclaimed_IgnoresClaimed(voxels, processed, c) == c \in voxels
Unclaimed_IgnoresAbsent(voxels, processed, c) == c \notin processed

\* voxels.contains(c) && !processed.contains(c)
Unclaimed(voxels, processed, c) == c \in voxels /\ c \notin processed

\* condition of the width loop
WidthGrows(voxels, processed, pos, width) ==
    Unclaimed(voxels, processed, <<pos[1] + width, pos[2], pos[3]>>)

\* the for loop inside 'depth_loop runs to its end without break
DepthGrows(voxels, processed, pos, width, depth) ==
    \A wx \in 0..(width - 1) :
        Unclaimed(voxels, processed, <<pos[1] + wx, pos[2], pos[3] + depth>>)

\* the two for loops inside 'height_loop run to their end without break
HeightGrows(voxels, processed, pos, width, depth, height) ==
    \A wx \in 0..(width - 1) : \A dz \in 0..(depth - 1) :
        Unclaimed(voxels, processed, <<pos[1] + wx, pos[2] + height, pos[3] + dz>>)

\* the cells the three insert loops put into processed
BoxCells(pos, width, height, depth) ==
    {<<pos[1] + wx, pos[2] + hy, pos[3] + dz>> :
        wx \in 0..(width - 1), hy \in 0..(height - 1), dz \in 0..(depth - 1)}

\* mutant of McCube: the size written as (width, depth, height)
McCube_SizeInGrowthOrder(pos, width, height, depth) ==
    [origin |-> pos, size |-> <<width, depth, height>>, uv |-> <<0, 0>>]

McCube(pos, width, height, depth) ==
    [origin |-> pos, size |-> <<width, height, depth>>, uv |-> <<0, 0>>]

RECURSIVE GrowWidth(_, _, _, _)
GrowWidth(voxels, processed, pos, width) ==
    IF WidthGrows(voxels, processed, pos, width)
    THEN GrowWidth(voxels, processed, pos, width + 1)
    ELSE width

RECURSIVE GrowDepth(_, _, _, _, _)
GrowDepth(voxels, processed, pos, width, depth) ==
    IF DepthGrows(voxels, processed, pos, width, depth)
    THEN GrowDepth(voxels, processed, pos, width, depth + 1)
    ELSE depth

RECURSIVE GrowHeight(_, _, _, _, _, _)
GrowHeight(voxels, processed, pos, width, depth, height) ==
    IF HeightGrows(voxels, processed, pos, width, depth, height)
    THEN GrowHeight(voxels, processed, pos, width, depth, height + 1)
    ELSE height

\* the body of `for &pos in &sorted_voxels`, from index i on
RECURSIVE MeshFrom(_, _, _, _, _)
MeshFrom(voxels, sorted, i, processed, cubes) ==
    IF i > Len(sorted) THEN cubes
    ELSE IF sorted[i] \in processed
    THEN MeshFrom(voxels, sorted, i + 1, processed, cubes)
    ELSE LET pos == sorted[i]
             width == GrowWidth(voxels, processed, pos, 1)
             depth == GrowDepth(voxels, processed, pos, width, 1)
             height == GrowHeight(voxels, processed, pos, width, depth, 1)
         IN  MeshFrom(voxels, sorted, i + 1,
                      processed \cup BoxCells(pos, width, height, depth),
                      Append(cubes, McCube(pos, width, height, depth)))

\* the whole function, as one value; iter is the iteration order of voxels
run_greedy_meshing(voxels, iter) ==
    IF voxels = {} THEN <<>>
    ELSE MeshFrom(voxels, SortedVoxels(iter), 1, {}, <<>>)

\* every order a hash set of these cells can be iterated in
Perms(S) ==
    LET n == Cardinality(S)
    IN  {f \in [1..n -> S] : \A i, j \in 1..n : i # j => f[i] # f[j]}

RECURSIVE SomeOrder(_)
SomeOrder(S) ==
    IF S = {} THEN <<>>
    ELSE LET e == CHOOSE c \in S : TRUE IN <<e>> \o SomeOrder(S \ {e})

Reverse(seq) == [i \in 1..Len(seq) |-> seq[Len(seq) + 1 - i]]

\* The iteration orders the model tries: all of them for a small set, two
\* opposite ones for a larger set.
HashOrders(S) ==
    IF Cardinality(S) <= MaxPerm THEN Perms(S)
    ELSE {SomeOrder(S), Reverse(SomeOrder(S))}

\* ==================================================================== state
VARIABLES
    \* voxelize_model
    models,           \* the input: a sequence of meshes, each a sequence of triangles
    scale,            \* voxels per world unit
    pc,               \* per mesh: where its par_iter closure stands
    voxels,           \* per mesh: the closure's local HashSet
    optimized_cubes,  \* per mesh: the closure's local Vec<McCube>
    loaded,           \* per mesh: the total read under the lock, before the += is stored
    mutex,            \* owner of each of the three Mutexes (0: unlocked)
    total_voxels,
    total_cubes,
    bones,
    returned,         \* the tuple voxelize_model returns, once it has
    \* one call of run_greedy_meshing, statement by statement
    g_pc,
    g_voxels,         \* the argument
    g_iter,           \* the order voxels.iter() yields
    sorted_voxels,
    processed,
    cubes,
    g_i,              \* index of pos in sorted_voxels
    width,
    depth,
    height,
    \* two calls of run_greedy_meshing on equal sets
    d_pc,
    d_voxels,
    d_iter,           \* d_iter[r]: the order the hash set of call r iterates in
    d_cubes           \* d_cubes[r]: what call r returned

pipeVars == <<models, scale, pc, voxels, optimized_cubes, loaded, mutex,
              total_voxels, total_cubes, bones, returned>>
meshVars == <<g_pc, g_voxels, g_iter, sorted_voxels, processed, cubes, g_i,
              width, depth, height>>
detVars == <<d_pc, d_voxels, d_iter, d_cubes>>
vars == <<pipeVars, meshVars, detVars>>

\* the part of the state a specification does not use
PipeIdle ==
    /\ models = <<>> /\ scale = 1 /\ pc = <<>> /\ voxels = <<>>
    /\ optimized_cubes = <<>> /\ loaded = <<>>
    /\ mutex = [m \in {"total_voxels", "total_cubes", "bones"} |-> 0]
    /\ total_voxels = 0 /\ total_cubes = 0 /\ bones = <<>>
    /\ returned = <<>>
MeshIdle ==
    /\ g_pc = "idle" /\ g_voxels = {} /\ g_iter = <<>> /\ sorted_voxels = <<>>
    /\ processed = {} /\ cubes = <<>> /\ g_i = 0
    /\ width = 0 /\ depth = 0 /\ height = 0
DetIdle ==
    /\ d_pc = "idle" /\ d_voxels = {} /\ d_iter = <<>> /\ d_cubes = <<>>

\* ------------------------------------------------------------------ inputs
GridCells == ((-1)..(NX - 2)) \X ((-1)..(NY - 2)) \X ((-1)..(NZ - 2))

SolidBoxes ==
    {BoxCells(o, s[1], s[2], s[3]) :
        o \in GridCells, s \in (1..NX) \X (1..NY) \X (1..NZ)}

\* voxel sets handed to run_greedy_meshing: every set of at most MaxVoxels
\* cells of the grid, every solid box inside it, and the empty set
RECURSIVE SubsetsUpTo(_, _)
SubsetsUpTo(S, k) ==
    IF k = 0 THEN {{}}
    ELSE LET smaller == SubsetsUpTo(S, k - 1)
         IN  smaller \cup {T \cup {c} : T \in smaller, c \in S}

VoxelSets ==
    SubsetsUpTo(GridCells, MaxVoxels) \cup {B \in SolidBoxes : B \subseteq GridCells}

\* two opposite iteration orders of a set
TwoOrders(S) == {SomeOrder(S), Reverse(SomeOrder(S))}

\* ------------------------------------- run_greedy_meshing, step by step
\* width, depth and height are i32 counters; LoopCap stands for the largest
\* value a counter may take before the model stops following it.
LoopCap == 4

InitMesher ==
    /\ PipeIdle /\ DetIdle
    /\ g_pc = "start"
    /\ g_voxels \in VoxelSets
    /\ g_iter \in TwoOrders(g_voxels)
    /\ sorted_voxels = <<>> /\ processed = {} /\ cubes = <<>> /\ g_i = 0
    /\ width = 0 /\ depth = 0 /\ height = 0

\* lines 118-126: the empty case, the collect and the sort
GStart ==
    /\ g_pc = "start"
    /\ IF g_voxels = {}
       THEN g_pc' = "done" /\ UNCHANGED <<sorted_voxels, g_i>>
       ELSE /\ sorted_voxels' = SortedVoxels(g_iter)
            /\ g_i' = 1
            /\ g_pc' = "for"
    /\ UNCHANGED <<g_voxels, g_iter, processed, cubes, width, depth, height>>
    /\ UNCHANGED <<pipeVars, detVars>>

\* lines 128-133: next pos of the for loop, `continue` for a claimed one
GFor ==
    /\ g_pc = "for"
    /\ IF g_i > Len(sorted_voxels)
       THEN g_pc' = "done" /\ UNCHANGED <<g_i, width>>
       ELSE IF sorted_voxels[g_i] \in processed
       THEN g_i' = g_i + 1 /\ UNCHANGED <<g_pc, width>>
       ELSE width' = 1 /\ g_pc' = "width" /\ UNCHANGED g_i
    /\ UNCHANGED <<g_voxels, g_iter, sorted_voxels, processed, cubes, depth, height>>
    /\ UNCHANGED <<pipeVars, detVars>>

\* lines 134-139: one test of the while condition
GWidth ==
    /\ g_pc = "width"
    /\ IF WidthGrows(g_voxels, processed, sorted_voxels[g_i], width)
       THEN width < LoopCap /\ width' = width + 1 /\ UNCHANGED <<g_pc, depth>>
       ELSE depth' = 1 /\ g_pc' = "depth" /\ UNCHANGED width
    /\ UNCHANGED <<g_voxels, g_iter, sorted_voxels, processed, cubes, g_i, height>>
    /\ UNCHANGED <<pipeVars, detVars>>

\* lines 140-150: one round of 'depth_loop
GDepth ==
    /\ g_pc = "depth"
    /\ IF DepthGrows(g_voxels, processed, sorted_voxels[g_i], width, depth)
       THEN depth < LoopCap /\ depth' = depth + 1 /\ UNCHANGED <<g_pc, height>>
       ELSE height' = 1 /\ g_pc' = "height" /\ UNCHANGED depth
    /\ UNCHANGED <<g_voxels, g_iter, sorted_voxels, processed, cubes, g_i, width>>
    /\ UNCHANGED <<pipeVars, detVars>>

\* lines 151-161: one round of 'height_loop
GHeight ==
    /\ g_pc = "height"
    /\ IF HeightGrows(g_voxels, processed, sorted_voxels[g_i], width, depth, height)
       THEN height < LoopCap /\ height' = height + 1 /\ UNCHANGED g_pc
       ELSE g_pc' = "emit" /\ UNCHANGED height
    /\ UNCHANGED <<g_voxels, g_iter, sorted_voxels, processed, cubes, g_i, width, depth>>
    /\ UNCHANGED <<pipeVars, detVars>>

\* lines 163-175: claim the box, push the cube, go on with the next pos
GEmit ==
    /\ g_pc = "emit"
    /\ processed' = processed \cup BoxCells(sorted_voxels[g_i], width, height, depth)
    /\ cubes' = Append(cubes, McCube(sorted_voxels[g_i], width, height, depth))
    /\ g_i' = g_i + 1
    /\ g_pc' = "for"
    /\ UNCHANGED <<g_voxels, g_iter, sorted_voxels, width, depth, height>>
    /\ UNCHANGED <<pipeVars, detVars>>

NextMesher == GStart \/ GFor \/ GWidth \/ GDepth \/ GHeight \/ GEmit

SpecMesher == InitMesher /\ [][NextMesher]_vars /\ WF_vars(NextMesher)

\* -------------------------- two calls of run_greedy_meshing on one set
\* the voxel sets of the two calls lie in the two lowest z layers of the grid
DetCells == {c \in GridCells : c[3] <= 0}

InitDet ==
    /\ PipeIdle /\ MeshIdle
    /\ d_pc = [r \in 1..2 |-> "call"]
    /\ d_voxels \in SubsetsUpTo(DetCells, MaxPerm)
    \* call 1 meets any iteration order, call 2 one fixed order of the same set
    /\ d_iter \in {<<o, SomeOrder(d_voxels)>> : o \in Perms(d_voxels)}
    /\ d_cubes = [r \in 1..2 |-> <<>>]

\* call r runs to its end; the second run starts after the first
DCall(r) ==
    /\ d_pc[r] = "call"
    /\ \A q \in 1..(r - 1) : d_pc[q] = "done"
    /\ d_cubes' = [d_cubes EXCEPT ![r] = run_greedy_meshing(d_voxels, d_iter[r])]
    /\ d_pc' = [d_pc EXCEPT ![r] = "done"]
    /\ UNCHANGED <<d_voxels, d_iter>>
    /\ UNCHANGED <<pipeVars, meshVars>>

NextDet == DCall(1) \/ DCall(2)

SpecDet == InitDet /\ [][NextDet]_vars

\* ---------------------------------------------------------- voxelize_model
\* vertices of the single-triangle inputs: a lattice of half units, x from
\* -1/2 on, y from 0 on, z either 0 or 1/2
HalfUnit == Den \div 2
Lattice ==
    {<<(i - 1) * HalfUnit, j * HalfUnit, z>> :
        i \in 0..MaxVX, j \in 0..MaxVY, z \in {0, HalfUnit}}
SingleTriangleMeshes == {<< <<a, b, c>> >> : a, b, c \in Lattice}

\* the meshes of the multi-mesh inputs: no triangle at all, a triangle shrunk
\* to one point, a triangle across several cells
PointTris == << << <<HalfUnit, HalfUnit, HalfUnit>>, <<HalfUnit, HalfUnit, HalfUnit>>,
                   <<HalfUnit, HalfUnit, HalfUnit>> >> >>
FlatTris == << << <<HalfUnit, HalfUnit, HalfUnit>>, <<HalfUnit + Den, HalfUnit, HalfUnit>>,
                  <<HalfUnit, HalfUnit, HalfUnit + Den>> >> >>
Catalogue == {<<>>, PointTris, FlatTris}

RECURSIVE SeqsUpTo(_, _)
SeqsUpTo(S, n) ==
    IF n = 0 THEN {<<>>}
    ELSE LET shorter == SeqsUpTo(S, n - 1)
         IN  shorter \cup {Append(q, e) : q \in shorter, e \in S}

\* one mesh of one triangle, the unit cube or the 2x1x1 box alone, or up to
\* MaxModels meshes of the catalogue
ModelLists ==
    {<<m>> : m \in SingleTriangleMeshes}
        \cup {<<UnitCubeTris>>, <<ElongatedBoxTris>>}
        \cup SeqsUpTo(Catalogue, MaxModels)

Workers == 1..Len(models)
Mutexes == {"total_voxels", "total_cubes", "bones"}

Init ==
    /\ MeshIdle /\ DetIdle
    /\ models \in ModelLists
    /\ scale \in Scales
    /\ pc = [w \in Workers |-> "start"]
    /\ voxels = [w \in Workers |-> {}]
    /\ optimized_cubes = [w \in Workers |-> <<>>]
    /\ loaded = [w \in Workers |-> 0]
    /\ mutex = [m \in Mutexes |-> 0]
    /\ total_voxels = 0
    /\ total_cubes = 0
    /\ bones = <<>>
    /\ returned = <<>>

\* mutant of MutexFree: the lock excludes nobody
MutexFree_NoExclusion(m) == TRUE

\* Mutex::lock returns once nobody holds the mutex
MutexFree(m) == mutex[m] = 0

\* mutant of HasVoxels: the test of line 233 inverted
HasVoxels_Inverted(vs) == vs = {}

\* line 233: !voxels.is_empty()
HasVoxels(vs) == vs # {}

McBone(w) == [name |-> w, pivot |-> <<0, 0, 0>>, cubes |-> optimized_cubes[w]]

\* line 194: a mesh without indices returns at once
Begin(w) ==
    /\ pc[w] = "start"
    /\ pc' = [pc EXCEPT ![w] = IF models[w] = <<>> THEN "done" ELSE "voxelize"]
    /\ UNCHANGED <<models, scale, voxels, optimized_cubes, loaded, mutex,
                   total_voxels, total_cubes, bones, returned>>
    /\ UNCHANGED <<meshVars, detVars>>

\* lines 196-233: the voxel set of the mesh; an empty one ends the closure
Voxelize(w) ==
    /\ pc[w] = "voxelize"
    /\ LET vs == MeshVoxels(models[w], scale)
       IN  /\ voxels' = [voxels EXCEPT ![w] = vs]
           /\ pc' = [pc EXCEPT ![w] = IF HasVoxels(vs) THEN "mesh" ELSE "done"]
    /\ UNCHANGED <<models, scale, optimized_cubes, loaded, mutex,
                   total_voxels, total_cubes, bones, returned>>
    /\ UNCHANGED <<meshVars, detVars>>

\* lines 234-236: run_greedy_meshing, whatever order the set iterates in
Mesh(w) ==
    /\ pc[w] = "mesh"
    /\ \E iter \in HashOrders(voxels[w]) :
          optimized_cubes' = [optimized_cubes EXCEPT
                                 ![w] = run_greedy_meshing(voxels[w], iter)]
    /\ pc' = [pc EXCEPT ![w] = "lock_voxels"]
    /\ UNCHANGED <<models, scale, voxels, loaded, mutex,
                   total_voxels, total_cubes, bones, returned>>
    /\ UNCHANGED <<meshVars, detVars>>

\* line 238, first half: lock total_voxels and read it
LockVoxels(w) ==
    /\ pc[w] = "lock_voxels"
    /\ MutexFree("total_voxels")
    /\ mutex' = [mutex EXCEPT !["total_voxels"] = w]
    /\ loaded' = [loaded EXCEPT ![w] = total_voxels]
    /\ pc' = [pc EXCEPT ![w] = "add_voxels"]
    /\ UNCHANGED <<models, scale, voxels, optimized_cubes,
                   total_voxels, total_cubes, bones, returned>>
    /\ UNCHANGED <<meshVars, detVars>>

\* line 238, second half: store the sum, drop the guard
AddVoxels(w) ==
    /\ pc[w] = "add_voxels"
    /\ total_voxels' = loaded[w] + Cardinality(voxels[w])
    /\ mutex' = [mutex EXCEPT !["total_voxels"] = 0]
    /\ pc' = [pc EXCEPT ![w] = "lock_cubes"]
    /\ UNCHANGED <<models, scale, voxels, optimized_cubes, loaded,
                   total_cubes, bones, returned>>
    /\ UNCHANGED <<meshVars, detVars>>

\* line 239, first half
LockCubes(w) ==
    /\ pc[w] = "lock_cubes"
    /\ MutexFree("total_cubes")
    /\ mutex' = [mutex EXCEPT !["total_cubes"] = w]
    /\ loaded' = [loaded EXCEPT ![w] = total_cubes]
    /\ pc' = [pc EXCEPT ![w] = "add_cubes"]
    /\ UNCHANGED <<models, scale, voxels, optimized_cubes,
                   total_voxels, total_cubes, bones, returned>>
    /\ UNCHANGED <<meshVars, detVars>>

\* line 239, second half
AddCubes(w) ==
    /\ pc[w] = "add_cubes"
    /\ total_cubes' = loaded[w] + Len(optimized_cubes[w])
    /\ mutex' = [mutex EXCEPT !["total_cubes"] = 0]
    /\ pc' = [pc EXCEPT ![w] = "lock_bones"]
    /\ UNCHANGED <<models, scale, voxels, optimized_cubes, loaded,
                   total_voxels, bones, returned>>
    /\ UNCHANGED <<meshVars, detVars>>

\* line 241: bones.lock()
LockBones(w) ==
    /\ pc[w] = "lock_bones"
    /\ MutexFree("bones")
    /\ mutex' = [mutex EXCEPT !["bones"] = w]
    /\ pc' = [pc EXCEPT ![w] = "push_bone"]
    /\ UNCHANGED <<models, scale, voxels, optimized_cubes, loaded,
                   total_voxels, total_cubes, bones, returned>>
    /\ UNCHANGED <<meshVars, detVars>>

\* lines 241-245: push the McBone, drop the guard, the closure ends
PushBone(w) ==
    /\ pc[w] = "push_bone"
    /\ bones' = Append(bones, McBone(w))
    /\ mutex' = [mutex EXCEPT !["bones"] = 0]
    /\ pc' = [pc EXCEPT ![w] = "done"]
    /\ UNCHANGED <<models, scale, voxels, optimized_cubes, loaded,
                   total_voxels, total_cubes, returned>>
    /\ UNCHANGED <<meshVars, detVars>>

\* mutant of Return: the values are taken without waiting for the closures
Return_NoJoin ==
    /\ returned = <<>>
    /\ returned' = << [final_bones |-> bones, final_voxels |-> total_voxels,
                       final_cubes |-> total_cubes] >>
    /\ UNCHANGED <<models, scale, pc, voxels, optimized_cubes, loaded, mutex,
                   total_voxels, total_cubes, bones>>
    /\ UNCHANGED <<meshVars, detVars>>

\* lines 249-253: for_each has joined every closure; the three values are returned
Return ==
    /\ returned = <<>>
    /\ \A w \in Workers : pc[w] = "done"
    /\ returned' = << [final_bones |-> bones, final_voxels |-> total_voxels,
                       final_cubes |-> total_cubes] >>
    /\ UNCHANGED <<models, scale, pc, voxels, optimized_cubes, loaded, mutex,
                   total_voxels, total_cubes, bones>>
    /\ UNCHANGED <<meshVars, detVars>>

Next ==
    \/ \E w \in Workers : Begin(w)
    \/ \E w \in Workers : Voxelize(w)
    \/ \E w \in Workers : Mesh(w)
    \/ \E w \in Workers : LockVoxels(w)
    \/ \E w \in Workers : AddVoxels(w)
    \/ \E w \in Workers : LockCubes(w)
    \/ \E w \in Workers : AddCubes(w)
    \/ \E w \in Workers : LockBones(w)
    \/ \E w \in Workers : PushBone(w)
    \/ Return

Spec == Init /\ [][Next]_vars

\* ================================================================== claims
\* the cells a cuboid covers: origin .. origin + size - 1 on each axis, the
\* size being (width along x, height along y, depth along z)
CoveredCells(cube) ==
    (cube.origin[1]..(cube.origin[1] + cube.size[1] - 1))
        \X (cube.origin[2]..(cube.origin[2] + cube.size[2] - 1))
        \X (cube.origin[3]..(cube.origin[3] + cube.size[3] - 1))

Volume(cube) == cube.size[1] * cube.size[2] * cube.size[3]

\* the sum of a sequence of numbers
RECURSIVE SumSeq(_)
SumSeq(seq) == IF seq = <<>> THEN 0 ELSE Head(seq) + SumSeq(Tail(seq))

\* The statement-by-statement run and the function agree (a cross-check of
\* the two renderings of run_greedy_meshing, not a claim).
MachineMatchesFunction ==
    g_pc = "done" => cubes = run_greedy_meshing(g_voxels, g_iter)

\* C1: when run_greedy_meshing returns, every cell of the voxel set lies in
\* exactly one emitted cuboid, no cuboid covers a cell outside the set, and
\* the volumes add up to the number of voxels.
C1_Partition ==
    g_pc = "done" =>
        /\ \A c \in g_voxels :
              Cardinality({i \in 1..Len(cubes) : c \in CoveredCells(cubes[i])}) = 1
        /\ \A i \in 1..Len(cubes) : CoveredCells(cubes[i]) \subseteq g_voxels
        /\ SumSeq([i \in 1..Len(cubes) |-> Volume(cubes[i])]) = Cardinality(g_voxels)

\* a finished run that emitted several cuboids, one of them larger than a cell
C1_Witness ==
    /\ g_pc = "done"
    /\ Len(cubes) >= 2
    /\ \E i \in 1..Len(cubes) : Volume(cubes[i]) >= 2

\* C8: every run of run_greedy_meshing reaches its return, no growth loop
\* ever counts up to LoopCap, and at no time are there more cuboids than voxels.
C8_Terminates ==
    /\ <>(g_pc = "done")
    /\ [](width < LoopCap /\ depth < LoopCap /\ height < LoopCap)
    /\ [](Len(cubes) <= Cardinality(g_voxels))

\* a finished run in which the width, the depth and the height loop each grew
\* and then stopped
C8_Witness ==
    /\ g_pc = "done"
    /\ \E i \in 1..Len(cubes) :
          cubes[i].size[1] >= 2 /\ cubes[i].size[2] >= 2 /\ cubes[i].size[3] >= 2

\* smallest and largest coordinate of a non-empty set of cells along axis k
MinCoord(S, k) == CHOOSE m \in {c[k] : c \in S} : \A c \in S : m <= c[k]
MaxCoord(S, k) == CHOOSE m \in {c[k] : c \in S} : \A c \in S : c[k] <= m
Extent(S, k) == MaxCoord(S, k) - MinCoord(S, k) + 1

\* S is every cell of its own bounding box
IsSolidBox(S) ==
    S # {} /\ Cardinality(S) = Extent(S, 1) * Extent(S, 2) * Extent(S, 3)

\* C9: a voxel set that is one solid box (minimum corner o, w cells along x,
\* h along y, d along z) meshes to exactly one cuboid, with origin o and
\* size [w, h, d].
C9_SolidBox ==
    (g_pc = "done" /\ IsSolidBox(g_voxels)) =>
        /\ Len(cubes) = 1
        /\ cubes[1].origin = <<MinCoord(g_voxels, 1), MinCoord(g_voxels, 2),
                               MinCoord(g_voxels, 3)>>
        /\ cubes[1].size = <<Extent(g_voxels, 1), Extent(g_voxels, 2),
                             Extent(g_voxels, 3)>>

\* two voxels colinear along x have become one cuboid of size (2,1,1)
C9_Witness ==
    /\ g_pc = "done"
    /\ g_voxels = {<<-1, -1, -1>>, <<0, -1, -1>>}
    /\ Len(cubes) = 1
    /\ cubes[1].size = <<2, 1, 1>>

\* C4: two runs of run_greedy_meshing on the same voxel set return the same
\* list, whatever order each run's hash set iterates in.
C4_Deterministic ==
    (d_pc = <<"done", "done">>) => d_cubes[1] = d_cubes[2]

\* both runs are over, their iteration orders differed, several cuboids came out
C4_Witness ==
    /\ d_pc = <<"done", "done">>
    /\ d_iter[1] # d_iter[2]
    /\ Len(d_cubes[1]) >= 2

\* ------------------------------------------------ claims on voxelize_model
\* the closure of mesh w is past its voxelization / past run_greedy_meshing
Voxelized(w) == pc[w] \notin {"start", "voxelize"}
Meshed(w) == pc[w] \notin {"start", "voxelize", "mesh"} /\ voxels[w] # {}

\* the closed cube of cell c meets triangle tri: the separating-axis test,
\* which is exact on the model's values
CubeMeets(c, tri) ==
    triangle_aabb_intersect(tri[1], tri[2], tri[3], CellCenter(c, scale), HalfSize(scale))

\* every cell within one cell of the scanned range of a triangle of mesh w
NearbyCells(w) ==
    UNION {LET lo == IMin(models[w][i], scale)
               hi == IMax(models[w][i], scale)
           IN  ((lo[1] - 1)..(hi[1] + 1)) \X ((lo[2] - 1)..(hi[2] + 1))
                   \X ((lo[3] - 1)..(hi[3] + 1)) : i \in 1..Len(models[w])}

\* C2: once a mesh is voxelized, a cell is in its voxel set if and only if
\* the cell's closed cube meets at least one triangle of the mesh.
C2_ExactlyTheTouchedCells ==
    \A w \in Workers : Voxelized(w) =>
        \A c \in NearbyCells(w) :
            c \in voxels[w] <=> \E i \in 1..Len(models[w]) : CubeMeets(c, models[w][i])

\* C3: the unit cube at scale 1 gives exactly one voxel and exactly one
\* cuboid, of size (1,1,1) at origin (0,0,0).
C3_UnitCube ==
    \A w \in Workers :
        (models[w] = UnitCubeTris /\ scale = 1 /\ Meshed(w)) =>
            /\ Cardinality(voxels[w]) = 1
            /\ Len(optimized_cubes[w]) = 1
            /\ optimized_cubes[w][1].origin = <<0, 0, 0>>
            /\ optimized_cubes[w][1].size = <<1, 1, 1>>

\* a triangle without area: its three vertices coincide or lie on one line
ZeroArea(tri) == VCross(VSub(tri[2], tri[1]), VSub(tri[3], tri[1])) = <<0, 0, 0>>

\* cell c lies in floor(min*scale)..ceil(max*scale) of the triangle on every
\* axis: floor(a) <= c iff a < c + 1, and c <= ceil(b) iff c - 1 < b
InBoundingRange(c, tri) ==
    \A k \in 1..3 :
        /\ Min3(tri[1][k], tri[2][k], tri[3][k]) * scale < (c[k] + 1) * Den
        /\ (c[k] - 1) * Den < Max3(tri[1][k], tri[2][k], tri[3][k]) * scale

\* C7 as stated: a zero-area triangle contributes at most one cell.
C7_AtMostOneCell ==
    \A w \in Workers :
        (Voxelized(w) /\ Len(models[w]) = 1 /\ ZeroArea(models[w][1])) =>
            Cardinality(voxels[w]) <= 1

\* C7 as amended: a zero-area triangle is voxelized like any other and
\* contributes only cells of its bounding cell range floor(min)..ceil(max),
\* which can be several cells.
C7_WithinBoundingRange ==
    \A w \in Workers :
        (Voxelized(w) /\ Len(models[w]) = 1 /\ ZeroArea(models[w][1])) =>
            \A c \in voxels[w] : InBoundingRange(c, models[w][1])

\* a triangle of three collinear vertices has been voxelized into several cells
C7_Witness ==
    \E w \in Workers :
        /\ Voxelized(w) /\ Len(models[w]) = 1 /\ ZeroArea(models[w][1])
        /\ Cardinality(voxels[w]) >= 2

\* the groups voxelize_model returned
FinalBones == returned[1].final_bones
GroupsNamed(w) == {i \in 1..Len(FinalBones) : FinalBones[i].name = w}

C6_TotalsAreSums ==
    returned # <<>> =>
        /\ returned[1].final_voxels =
              SumSeq([w \in Workers |-> Cardinality(voxels[w])])
        /\ returned[1].final_cubes =
              SumSeq([w \in Workers |-> Len(optimized_cubes[w])])
        /\ returned[1].final_cubes =
              SumSeq([i \in 1..Len(FinalBones) |-> Len(FinalBones[i].cubes)])

\* two meshes with voxels were added up, the second one first
C6_Witness ==
    /\ returned # <<>>
    /\ Len(FinalBones) = 2
    /\ FinalBones[1].name = 2
    /\ returned[1].final_voxels = Cardinality(voxels[1]) + Cardinality(voxels[2])
    /\ returned[1].final_voxels > Cardinality(voxels[1])
    /\ returned[1].final_voxels > Cardinality(voxels[2])

\* the group a mesh must produce: a function of its voxel set alone
ExpectedGroup(w) ==
    [name |-> w, pivot |-> <<0, 0, 0>>,
     cubes |-> run_greedy_meshing(voxels[w], SomeOrder(voxels[w]))]

\* C10: whatever the interleaving, the returned list holds exactly the groups
\* of the meshes with a non-empty voxel set, each once, each with its name
\* and its cuboid list in the mesher's order; only their positions vary.
C10_SameGroups ==
    returned # <<>> =>
        LET expected == {ExpectedGroup(w) : w \in {v \in Workers : voxels[v] # {}}}
        IN  /\ Range(FinalBones) = expected
            /\ Len(FinalBones) = Cardinality(expected)

\* the groups came back in another order than their meshes went in
C10_Witness ==
    /\ returned # <<>>
    /\ Len(FinalBones) = 2
    /\ FinalBones[1].name = 2
    /\ FinalBones[2].name = 1
    /\ Len(FinalBones[2].cubes) >= 2

=============================================================================
